---------------------------- MODULE Spec2Model ----------------------------
(* Model of the duplicate-detection engine of dqtool/duplicates.py:        *)
(* find_duplicates_advanced and its helpers _normalize_value, _build_key   *)
(* and _block_key.  A string is a sequence of one-character strings, the   *)
(* DataFrame is a sequence of rows (a row maps a column name to a cell),   *)
(* and its index is the default one: row ids are the row positions.        *)
(* One call of find_duplicates_advanced is one behaviour; pc is the        *)
(* position of the call in the function body.                              *)
EXTENDS Integers, Sequences, FiniteSets, TLC

(***************************************************************************)
(* Bounds of the model.                                                    *)
(***************************************************************************)
MaxRows == 4

(***************************************************************************)
(* Strings.                                                                *)
(***************************************************************************)
\* The missing cell (None): not a string, pd.isna is true of it only.
Null == <<"NULL">>

\* The characters of the cells, with their code points (order of sorted()).
Ord == [c \in {" ", "A", "B", "N", "a", "b", "c", "d", "e", "n", "o", "x", "|"} |->
          CASE c = " " -> 32 [] c = "A" -> 65 [] c = "B" -> 66 [] c = "N" -> 78
            [] c = "a" -> 97 [] c = "b" -> 98 [] c = "c" -> 99 [] c = "d" -> 100
            [] c = "e" -> 101 [] c = "n" -> 110 [] c = "o" -> 111
            [] c = "x" -> 120 [] c = "|" -> 124]

\* str.lower() on one character.
LowerChar(c) == CASE c = "A" -> "a" [] c = "B" -> "b" [] c = "N" -> "n" [] OTHER -> c

Lower(s) == [k \in 1..Len(s) |-> LowerChar(s[k])]

RECURSIVE LStrip(_)
LStrip(s) == IF s # <<>> /\ Head(s) = " " THEN LStrip(Tail(s)) ELSE s

RECURSIVE RStrip(_)
RStrip(s) == IF s # <<>> /\ s[Len(s)] = " " THEN RStrip(SubSeq(s, 1, Len(s) - 1)) ELSE s

\* str.strip()
Strip(s) == RStrip(LStrip(s))

\* "  " in s
HasDoubleSpace(s) == \E k \in 1..(Len(s) - 1) : s[k] = " " /\ s[k + 1] = " "

\* s.replace("  ", " "): one left-to-right pass over non-overlapping matches.
RECURSIVE ReplaceDoubleSpace(_)
ReplaceDoubleSpace(s) ==
    IF Len(s) < 2 THEN s
    ELSE IF s[1] = " " /\ s[2] = " "
         THEN <<" ">> \o ReplaceDoubleSpace(SubSeq(s, 3, Len(s)))
         ELSE <<s[1]>> \o ReplaceDoubleSpace(Tail(s))

\* while "  " in s: s = s.replace("  ", " ")
RECURSIVE CollapseSpaces(_)
CollapseSpaces(s) == IF HasDoubleSpace(s) THEN CollapseSpaces(ReplaceDoubleSpace(s)) ELSE s

\* str(v) of a cell: the text itself, "None" for the missing cell.
Str(v) == IF v = Null THEN <<"N", "o", "n", "e">> ELSE v

\* sep.join(parts)
RECURSIVE Join(_, _)
Join(sep, parts) ==
    IF parts = <<>> THEN <<>>
    ELSE IF Len(parts) = 1 THEN parts[1]
    ELSE parts[1] \o sep \o Join(sep, Tail(parts))

Separator == <<" ", "|", " ">>

\* [x for x in s if keep(x)] for a sequence
RECURSIVE DropEmpty(_)
DropEmpty(parts) ==
    IF parts = <<>> THEN <<>>
    ELSE IF Head(parts) = <<>> THEN DropEmpty(Tail(parts))
    ELSE <<Head(parts)>> \o DropEmpty(Tail(parts))

(***************************************************************************)
(* _normalize_value, _build_key, _block_key.                               *)
(***************************************************************************)
_normalize_value(v) == IF v = Null THEN <<>> ELSE CollapseSpaces(Lower(Strip(Str(v))))

\* a key that keeps the empty parts
BuildKeyKeepsEmpty(row, cols) ==
    Join(Separator, [k \in 1..Len(cols) |-> _normalize_value(row[cols[k]])])

_build_key(row, cols) ==
    Join(Separator, DropEmpty([k \in 1..Len(cols) |-> _normalize_value(row[cols[k]])]))

\* key[:n] of Python: a negative n counts from the end.
Slice(key, n) ==
    IF n >= 0 THEN SubSeq(key, 1, IF n < Len(key) THEN n ELSE Len(key))
    ELSE SubSeq(key, 1, IF Len(key) + n > 0 THEN Len(key) + n ELSE 0)

\* _block_key that ignores block_size and takes one character
BlockKeyOneChar(key, bsize) == IF key = <<>> THEN <<>> ELSE Slice(key, 1)

_block_key(key, bsize) == IF key = <<>> THEN <<>> ELSE Slice(key, bsize)


(***************************************************************************)
(* fuzz.token_set_ratio of rapidfuzz.  A score is kept in hundredths of a  *)
(* point (0 .. 10000 for 0.0 .. 100.0), so that score >= threshold is      *)
(* exact for an integer threshold.                                         *)
(***************************************************************************)
Max(a, b) == IF a >= b THEN a ELSE b

\* s.split(): the maximal runs of non-space characters, cur being the run read so far.
RECURSIVE SplitAcc(_, _)
SplitAcc(s, cur) ==
    IF s = <<>> THEN (IF cur = <<>> THEN <<>> ELSE <<cur>>)
    ELSE IF Head(s) = " "
         THEN (IF cur = <<>> THEN <<>> ELSE <<cur>>) \o SplitAcc(Tail(s), <<>>)
         ELSE SplitAcc(Tail(s), Append(cur, Head(s)))

Tokens(s) == { SplitAcc(s, <<>>)[k] : k \in 1..Len(SplitAcc(s, <<>>)) }

\* s < t for two strings, by code point
RECURSIVE StrLess(_, _)
StrLess(s, t) ==
    IF t = <<>> THEN FALSE
    ELSE IF s = <<>> THEN TRUE
    ELSE IF Head(s) = Head(t) THEN StrLess(Tail(s), Tail(t))
    ELSE Ord[Head(s)] < Ord[Head(t)]

\* sorted(tokens)
RECURSIVE Sorted(_)
Sorted(S) ==
    IF S = {} THEN <<>>
    ELSE LET m == CHOOSE t \in S : \A u \in S \ {t} : StrLess(t, u)
         IN  <<m>> \o Sorted(S \ {m})

\* length of the longest common subsequence
RECURSIVE LCS(_, _)
LCS(s, t) ==
    IF s = <<>> \/ t = <<>> THEN 0
    ELSE IF Head(s) = Head(t) THEN 1 + LCS(Tail(s), Tail(t))
    ELSE Max(LCS(Tail(s), t), LCS(s, Tail(t)))

\* Indel.distance: insertions and deletions only
IndelDistance(s, t) == Len(s) + Len(t) - 2 * LCS(s, t)

\* 100 - 100 * dist / lensum, in hundredths
_norm_distance(dist, lensum) ==
    IF lensum = 0 THEN 10000 ELSE (10000 * (lensum - dist)) \div lensum

token_set_ratio(s1, s2) ==
    LET tokens_a  == Tokens(s1)
        tokens_b  == Tokens(s2)
        intersect == tokens_a \cap tokens_b
        diff_ab   == tokens_a \ tokens_b
        diff_ba   == tokens_b \ tokens_a
        diff_ab_joined == Join(<<" ">>, Sorted(diff_ab))
        diff_ba_joined == Join(<<" ">>, Sorted(diff_ba))
        ab_len    == Len(diff_ab_joined)
        ba_len    == Len(diff_ba_joined)
        sect_len  == Len(Join(<<" ">>, Sorted(intersect)))
        sep       == IF sect_len # 0 THEN 1 ELSE 0
        sect_ab_len == sect_len + sep + ab_len
        sect_ba_len == sect_len + sep + ba_len
        diff_ratio == _norm_distance(IndelDistance(diff_ab_joined, diff_ba_joined),
                                     sect_ab_len + sect_ba_len)
        sect_ab_ratio == _norm_distance(sep + ab_len, sect_len + sect_ab_len)
        sect_ba_ratio == _norm_distance(sep + ba_len, sect_len + sect_ba_len)
    IN  IF s1 = <<>> \/ s2 = <<>> THEN 0
        ELSE IF tokens_a = {} \/ tokens_b = {} THEN 0
        ELSE IF intersect # {} /\ (diff_ab = {} \/ diff_ba = {}) THEN 10000
        ELSE IF sect_len = 0 THEN diff_ratio
        ELSE Max(diff_ratio, Max(sect_ab_ratio, sect_ba_ratio))

(***************************************************************************)
(* The inputs of a call.                                                   *)
(***************************************************************************)
\* df.columns; every column holds text or None (object dtype).
DfColumns == <<"name", "city">>

\* The rows a DataFrame is made of.
RowValues ==
    { [name |-> Null,                            city |-> <<>>],
      [name |-> <<"A", "b", " ">>,               city |-> Null],
      [name |-> <<"A", "B", " ", " ", "d">>,     city |-> <<"x">>],
      [name |-> <<" ", "a", "c">>,               city |-> Null] }

DataFrames == UNION { [1..n -> RowValues] : n \in 0..MaxRows }

\* subset_cols as passed: <<>> stands for None or an empty list.
SubsetArgs == { <<>>, <<"name">>, <<"name", "zip">> }

Thresholds == {-1, 50, 100}
BlockSizes == {1, 3}
MinNonNulls == {0, 1, 2}
PairCaps == {1, 3}

\* pd.DataFrame(): no row and no column
EmptyFrame == [columns |-> <<>>, rows |-> <<>>]

PairColumns == <<"group_id", "left_index", "right_index", "score",
                 "left_preview", "right_preview">>

NoResult == [status |-> "none", mask |-> <<>>, pairs_df |-> EmptyFrame, error |-> <<>>]

VARIABLES
    df,                  \* the DataFrame of the call
    subset_arg,          \* subset_cols as passed
    threshold, block_size, min_non_null, max_pairs_per_block,
    pc,                  \* position in find_duplicates_advanced
    subset_cols,         \* the columns used for matching
    candidate_idx,       \* ids of the candidate rows, in row order
    keys_series,         \* candidate id -> normalized key
    blocks,              \* the dict blocks, as its items in insertion order
    parent,              \* union-find parent map
    pairs,               \* list of DuplicatePair
    blk, i, j,           \* the block and the positions the comparison loops are at
    root_to_group,
    compared,            \* the (left, right) ids token_set_ratio was called on
    result,              \* what the call returned or raised
    earlier,             \* the threshold and the result of the calls made before this one
    probe                \* the last call of a helper made on its own: arguments and value

vars == <<df, subset_arg, threshold, block_size, min_non_null, max_pairs_per_block,
          pc, subset_cols, candidate_idx, keys_series, blocks, parent, pairs,
          blk, i, j, root_to_group, compared, result, earlier, probe>>

\* what a call of find_duplicates_advanced does not touch
aux == <<earlier, probe>>

args == <<df, subset_arg, threshold, block_size, min_non_null, max_pairs_per_block>>

Init ==
    /\ df \in DataFrames
    /\ subset_arg \in SubsetArgs
    /\ threshold \in Thresholds
    /\ block_size \in BlockSizes
    /\ min_non_null \in MinNonNulls
    /\ max_pairs_per_block \in PairCaps
    /\ pc = "start"
    /\ subset_cols = <<>>
    /\ candidate_idx = <<>>
    /\ keys_series = <<>>
    /\ blocks = <<>>
    /\ parent = <<>>
    /\ pairs = <<>>
    /\ blk = 0 /\ i = 0 /\ j = 0
    /\ root_to_group = <<>>
    /\ compared = {}
    /\ result = NoResult
    /\ earlier = <<>>
    /\ probe = <<>>

(***************************************************************************)
(* Helpers of the function body.                                           *)
(***************************************************************************)
Range(s) == { s[k] : k \in 1..Len(s) }

\* an empty return whose mask covers the candidates instead of the rows of df
EmptyReturnOverCandidates ==
    [status |-> "returned", mask |-> [r \in 1..Len(candidate_idx) |-> FALSE],
     pairs_df |-> EmptyFrame, error |-> <<>>]

\* pd.Series([False] * len(df), index=df.index), pd.DataFrame()
EmptyReturn ==
    [status |-> "returned", mask |-> [r \in 1..Len(df) |-> FALSE],
     pairs_df |-> EmptyFrame, error |-> <<>>]

\* a KeyError that lists the whole selection instead of the missing labels
MissingColumnsWholeSelection(cols) ==
    IF \E k \in 1..Len(cols) : cols[k] \notin Range(DfColumns) THEN cols ELSE <<>>

\* df[subset_cols] raises KeyError for the labels that are no column of df
MissingColumns(cols) == SelectSeq(cols, LAMBDA c : c \notin Range(DfColumns))

\* a count of the selected columns instead of the non-null cells among them
CountsSelectedColumns(r, cols) == Len(cols)

\* df[subset_cols].notna().sum(axis=1) at row r
non_null_counts(r, cols) == Cardinality({ k \in 1..Len(cols) : df[r][cols[k]] # Null })

\* df.index: the row ids in row order
Index == [r \in 1..Len(df) |-> r]

\* a block list that takes the new row at its front
SetDefaultPrepend(bs, b, idx) ==
    IF \E k \in 1..Len(bs) : bs[k].key = b
    THEN [k \in 1..Len(bs) |->
            IF bs[k].key = b THEN [bs[k] EXCEPT !.idx_list = <<idx>> \o @] ELSE bs[k]]
    ELSE Append(bs, [key |-> b, idx_list |-> <<idx>>])

\* the blocks dict after blocks.setdefault(b, []).append(idx)
SetDefaultAppend(bs, b, idx) ==
    IF \E k \in 1..Len(bs) : bs[k].key = b
    THEN [k \in 1..Len(bs) |->
            IF bs[k].key = b THEN [bs[k] EXCEPT !.idx_list = Append(@, idx)] ELSE bs[k]]
    ELSE Append(bs, [key |-> b, idx_list |-> <<idx>>])

\* the loop of lines 108-112 over the candidates ids with their keys
RECURSIVE BuildBlocksFrom(_, _, _, _)
BuildBlocksFrom(ids, keys, bsize, bs) ==
    IF ids = <<>> THEN bs
    ELSE LET b == _block_key(keys[Head(ids)], bsize)
         IN  BuildBlocksFrom(Tail(ids), keys, bsize,
                             IF b = <<>> THEN bs ELSE SetDefaultAppend(bs, b, Head(ids)))

\* a find that makes every row it passes its own parent
RECURSIVE FindCutsPath(_, _)
FindCutsPath(p, x) ==
    IF p[x] = x THEN [parent |-> p, root |-> x]
    ELSE FindCutsPath([p EXCEPT ![x] = x], p[x])

\* find(x): follows the parents of x, halving the path; the new map and the root
RECURSIVE find(_, _)
find(p, x) ==
    IF p[x] = x THEN [parent |-> p, root |-> x]
    ELSE LET p2 == [p EXCEPT ![x] = p[p[x]]]
         IN  find(p2, p2[x])

\* union that links y to x instead of the root of y to the root of x
UnionLinksRows(p, x, y) ==
    LET fx == find(p, x)
        fy == find(fx.parent, y)
    IN  IF fx.root # fy.root THEN [fy.parent EXCEPT ![y] = x] ELSE fy.parent

\* union(x, y): the parent map afterwards
union(p, x, y) ==
    LET fx == find(p, x)
        fy == find(fx.parent, y)
    IN  IF fx.root # fy.root THEN [fy.parent EXCEPT ![fy.root] = fx.root] ELSE fy.parent

\* len(idx_list) * (len(idx_list) - 1) // 2
PairCount(k) == (k * (k - 1)) \div 2

\* the cap test with >= : a block whose pair count equals the cap is skipped too
BlockSkippedAtCap(idx_list, cap) == Len(idx_list) < 2 \/ PairCount(Len(idx_list)) >= cap

\* the guards of lines 134 and 139: the block is passed over
BlockSkipped(idx_list, cap) == Len(idx_list) < 2 \/ PairCount(Len(idx_list)) > cap

\* an inner loop that starts at i itself: range(i, len(idx_list))
FirstRightSame(n) == n

\* range(i + 1, len(idx_list)) starts at the position after i
FirstRight(n) == n + 1

\* the positions i of the outer loop after i whose inner range is not empty
LaterLefts(n, len) == { m \in (n + 1)..len : FirstRight(m) <= len }

\* dup_indices that collects the left ids only
DupIndicesLeftOnly(ps) == { ps[k].left_index : k \in 1..Len(ps) }

\* lines 182-185: the ids of both ends of every pair
DupIndices(ps) == { ps[k].left_index : k \in 1..Len(ps) }
                  \cup { ps[k].right_index : k \in 1..Len(ps) }

\* the test score <= threshold
AcceptsAtMost(score, thr) == score <= 100 * thr

\* the test score > threshold
AcceptsStrict(score, thr) == score > 100 * thr

\* score >= threshold, the score being in hundredths
Accepts(score, thr) == score >= 100 * thr

\* group ids handed out while walking the candidates from the last to the first
RECURSIVE AssignRootsFromLast(_, _, _, _)
AssignRootsFromLast(p, ids, r2g, next_group_id) ==
    IF ids = <<>> THEN [parent |-> p, root_to_group |-> r2g]
    ELSE LET f == find(p, ids[Len(ids)])
             rest == SubSeq(ids, 1, Len(ids) - 1)
         IN  IF f.root \in DOMAIN r2g
             THEN AssignRootsFromLast(f.parent, rest, r2g, next_group_id)
             ELSE AssignRootsFromLast(f.parent, rest, (f.root :> next_group_id) @@ r2g,
                                      next_group_id + 1)

\* lines 171-175: a new group id for each root, in the order the roots are met
RECURSIVE AssignRoots(_, _, _, _)
AssignRoots(p, ids, r2g, next_group_id) ==
    IF ids = <<>> THEN [parent |-> p, root_to_group |-> r2g]
    ELSE LET f == find(p, Head(ids))
         IN  IF f.root \in DOMAIN r2g
             THEN AssignRoots(f.parent, Tail(ids), r2g, next_group_id)
             ELSE AssignRoots(f.parent, Tail(ids), (f.root :> next_group_id) @@ r2g,
                              next_group_id + 1)

\* lines 177-179: each pair gets the group id of the root of its left row
RECURSIVE StampPairs(_, _, _)
StampPairs(p, ps, r2g) ==
    IF ps = <<>> THEN <<>>
    ELSE LET f == find(p, Head(ps).left_index)
         IN  <<[Head(ps) EXCEPT !.group_id = r2g[f.root]]>>
             \o StampPairs(f.parent, Tail(ps), r2g)

\* " | ".join(str(row.get(c, "")) for c in preview_cols)
Preview(row, preview_cols) ==
    Join(Separator, [k \in 1..Len(preview_cols) |-> Str(row[preview_cols[k]])])

\* the dict appended to rows for the pair p (lines 192-206)
TableRow(p, cols) ==
    LET preview_cols == SubSeq(cols, 1, IF Len(cols) < 3 THEN Len(cols) ELSE 3)
    IN  [group_id      |-> p.group_id,
         left_index    |-> p.left_index,
         right_index   |-> p.right_index,
         score         |-> p.score,
         left_preview  |-> Preview(df[p.left_index], preview_cols),
         right_preview |-> Preview(df[p.right_index], preview_cols)]

\* an order with both keys ascending
SortsBeforeAscending(a, b) ==
    \/ a.group_id < b.group_id
    \/ a.group_id = b.group_id /\ a.score < b.score

\* the order of sort_values(["group_id", "score"], ascending=[True, False])
SortsBefore(a, b) ==
    \/ a.group_id < b.group_id
    \/ a.group_id = b.group_id /\ a.score > b.score

\* x put into the sorted rows, behind the rows it does not sort before
RECURSIVE InsertRow(_, _)
InsertRow(x, rows) ==
    IF rows = <<>> THEN <<x>>
    ELSE IF SortsBefore(x, Head(rows)) THEN <<x>> \o rows
    ELSE <<Head(rows)>> \o InsertRow(x, Tail(rows))

\* sort_values on several keys is a stable sort
RECURSIVE SortValues(_)
SortValues(rows) ==
    IF rows = <<>> THEN <<>>
    ELSE InsertRow(rows[Len(rows)], SortValues(SubSeq(rows, 1, Len(rows) - 1)))

\* df.index.to_series().isin(dup_indices)
IsIn(dup_indices) == [r \in 1..Len(df) |-> Index[r] \in dup_indices]

(***************************************************************************)
(* find_duplicates_advanced, step by step.                                 *)
(***************************************************************************)
Return(r) == /\ result' = r
             /\ pc' = "done"

\* lines 79-83: the default selection is every text column
SelectColumns ==
    /\ pc = "start"
    /\ subset_cols' = IF Len(subset_arg) = 0 THEN DfColumns ELSE subset_arg
    /\ pc' = "filter"
    /\ UNCHANGED <<aux, args, candidate_idx, keys_series, blocks, parent, pairs,
                   blk, i, j, root_to_group, compared, result>>

\* line 86: df[subset_cols] with a label that is no column
MissingColumn ==
    /\ pc = "filter"
    /\ MissingColumns(subset_cols) # <<>>
    /\ Return([status |-> "raised", mask |-> <<>>, pairs_df |-> EmptyFrame,
               error |-> [type |-> "KeyError", labels |-> MissingColumns(subset_cols)]])
    /\ UNCHANGED <<aux, args, subset_cols, candidate_idx, keys_series, blocks, parent, pairs,
                   blk, i, j, root_to_group, compared>>

\* lines 86-91: the rows with at least min_non_null values in the selection
FilterRows ==
    /\ pc = "filter"
    /\ MissingColumns(subset_cols) = <<>>
    /\ LET cand == SelectSeq(Index, LAMBDA r : non_null_counts(r, subset_cols) >= min_non_null)
       IN  /\ candidate_idx' = cand
           /\ IF Len(cand) = 0
              THEN Return(EmptyReturn)
              ELSE pc' = "keys" /\ UNCHANGED result
    /\ UNCHANGED <<aux, args, subset_cols, keys_series, blocks, parent, pairs,
                   blk, i, j, root_to_group, compared>>

\* lines 94-104: the keys of the candidates; the rows with an empty key are dropped
BuildKeys ==
    /\ pc = "keys"
    /\ LET all_keys == [r \in Range(candidate_idx) |-> _build_key(df[r], subset_cols)]
           valid    == SelectSeq(candidate_idx, LAMBDA r : Len(all_keys[r]) > 0)
       IN  /\ candidate_idx' = valid
           /\ keys_series' = [r \in Range(valid) |-> all_keys[r]]
           /\ IF Len(valid) = 0
              THEN Return(EmptyReturn)
              ELSE pc' = "block" /\ UNCHANGED result
    /\ UNCHANGED <<aux, args, subset_cols, blocks, parent, pairs,
                   blk, i, j, root_to_group, compared>>

\* lines 106-112
BuildBlocks ==
    /\ pc = "block"
    /\ blocks' = BuildBlocksFrom(candidate_idx, keys_series, block_size, <<>>)
    /\ pc' = "init"
    /\ UNCHANGED <<aux, args, subset_cols, candidate_idx, keys_series, parent, pairs,
                   blk, i, j, root_to_group, compared, result>>

\* a pairs list that outlives the call
KeptPairs == pairs

\* line 114: pairs = [], a new list in every call
NewPairs == <<>>

\* lines 114-130: no pair yet, every candidate its own parent
InitUnionFind ==
    /\ pc = "init"
    /\ pairs' = NewPairs
    /\ parent' = [r \in Range(candidate_idx) |-> r]
    /\ blk' = 1 /\ i' = 1 /\ j' = FirstRight(1)
    /\ pc' = "compare"
    /\ UNCHANGED <<aux, args, subset_cols, candidate_idx, keys_series, blocks,
                   root_to_group, compared, result>>

\* lines 133-141: a block of one row, or of more pairs than the cap, is passed over
SkipBlock ==
    /\ pc = "compare"
    /\ blk <= Len(blocks)
    /\ BlockSkipped(blocks[blk].idx_list, max_pairs_per_block)
    /\ blk' = blk + 1 /\ i' = 1 /\ j' = FirstRight(1)
    /\ UNCHANGED <<aux, args, pc, subset_cols, candidate_idx, keys_series, blocks, parent,
                   pairs, root_to_group, compared, result>>

\* lines 146-162: one iteration of the inner loop
ComparePair ==
    /\ pc = "compare"
    /\ blk <= Len(blocks)
    /\ ~BlockSkipped(blocks[blk].idx_list, max_pairs_per_block)
    /\ LET idx_list  == blocks[blk].idx_list
           left_idx  == idx_list[i]
           right_idx == idx_list[j]
           score     == token_set_ratio(keys_series[left_idx], keys_series[right_idx])
       IN  /\ compared' = compared \cup {<<left_idx, right_idx>>}
           /\ IF Accepts(score, threshold)
              THEN /\ parent' = union(parent, left_idx, right_idx)
                   /\ pairs' = Append(pairs, [left_index |-> left_idx,
                                              right_index |-> right_idx,
                                              score |-> score, group_id |-> -1])
              ELSE UNCHANGED <<parent, pairs>>
           /\ IF j < Len(idx_list)
              THEN j' = j + 1 /\ UNCHANGED <<blk, i>>
              ELSE IF LaterLefts(i, Len(idx_list)) # {}
                   THEN LET m == CHOOSE m \in LaterLefts(i, Len(idx_list)) :
                                    \A o \in LaterLefts(i, Len(idx_list)) : m <= o
                        IN  i' = m /\ j' = FirstRight(m) /\ UNCHANGED blk
                   ELSE blk' = blk + 1 /\ i' = 1 /\ j' = FirstRight(1)
    /\ UNCHANGED <<aux, args, pc, subset_cols, candidate_idx, keys_series, blocks,
                   root_to_group, result>>

\* lines 164-166
ReturnNoPairs ==
    /\ pc = "compare"
    /\ blk > Len(blocks)
    /\ Len(pairs) = 0
    /\ Return(EmptyReturn)
    /\ UNCHANGED <<aux, args, subset_cols, candidate_idx, keys_series, blocks, parent, pairs,
                   blk, i, j, root_to_group, compared>>

\* lines 168-179
AssignGroups ==
    /\ pc = "compare"
    /\ blk > Len(blocks)
    /\ Len(pairs) > 0
    /\ LET a == AssignRoots(parent, candidate_idx, <<>>, 1)
       IN  /\ root_to_group' = a.root_to_group
           /\ pairs' = StampPairs(a.parent, pairs, a.root_to_group)
           /\ parent' = a.parent
    /\ pc' = "build"
    /\ UNCHANGED <<aux, args, subset_cols, candidate_idx, keys_series, blocks,
                   blk, i, j, compared, result>>

\* lines 181-210
BuildResult ==
    /\ pc = "build"
    /\ LET dup_indices == DupIndices(pairs)
           rows == [k \in 1..Len(pairs) |-> TableRow(pairs[k], subset_cols)]
       IN  Return([status |-> "returned", mask |-> IsIn(dup_indices),
                   pairs_df |-> [columns |-> PairColumns, rows |-> SortValues(rows)],
                   error |-> <<>>])
    /\ UNCHANGED <<aux, args, subset_cols, candidate_idx, keys_series, blocks, parent, pairs,
                   blk, i, j, root_to_group, compared>>

Next ==
    \/ SelectColumns
    \/ MissingColumn
    \/ FilterRows
    \/ BuildKeys
    \/ BuildBlocks
    \/ InitUnionFind
    \/ SkipBlock
    \/ ComparePair
    \/ ReturnNoPairs
    \/ AssignGroups
    \/ BuildResult

Spec == Init /\ [][Next]_vars

(***************************************************************************)
(* Two calls in a row on the same DataFrame with the same parameters, the  *)
(* threshold of the second call being the same or a higher one.  The       *)
(* locals of the first call are left as they are: the second call sees     *)
(* fresh ones only where the function body creates them.                   *)
(***************************************************************************)
CallAgain ==
    /\ pc = "done"
    /\ Len(earlier) = 0
    /\ \E t \in Thresholds : t >= threshold /\ threshold' = t
    /\ earlier' = Append(earlier, [threshold |-> threshold, result |-> result])
    /\ pc' = "start"
    /\ result' = NoResult
    /\ compared' = {}
    /\ UNCHANGED <<df, subset_arg, block_size, min_non_null, max_pairs_per_block,
                   subset_cols, candidate_idx, keys_series, blocks, parent, pairs,
                   blk, i, j, root_to_group, probe>>

NextTwice == Next \/ CallAgain

\* the calls that are repeated: min_non_null is 1 as in detect_duplicates_simple
InitTwice == Init /\ min_non_null = 1

SpecTwice == InitTwice /\ [][NextTwice]_vars

(***************************************************************************)
(* _normalize_value and _build_key called on their own.                    *)
(***************************************************************************)
MaxCellLen == 5

CellChars == {" ", "A", "b"}

RECURSIVE StringsUpTo(_)
StringsUpTo(n) ==
    IF n = 0 THEN { <<>> }
    ELSE LET S == StringsUpTo(n - 1)
         IN  S \cup { Append(t, c) : t \in S, c \in CellChars }

\* a cell that holds a list of two values, as the driver gives for an ARRAY column
ListCell == <<"LIST", <<"A">>, <<"b">>>>

CellValues == StringsUpTo(MaxCellLen) \cup {Null, ListCell}

\* pd.isna(v) is one truth value for a scalar and an array of them for a list
IsArrayLike(v) == Len(v) > 0 /\ v[1] = "LIST"

KeyCells == { Null, <<>>, <<" ">>, <<"A", "b", " ">>, <<"x">> }

KeyRows == [{"name", "city"} -> KeyCells]

KeySelections == { <<>>, <<"name">>, <<"city">>, <<"name", "city">>, <<"city", "name">> }

\* no call of find_duplicates_advanced is under way
Idle ==
    /\ df = <<>>
    /\ subset_arg = <<>>
    /\ threshold = 100
    /\ block_size = 2
    /\ min_non_null = 1
    /\ max_pairs_per_block = 3
    /\ subset_cols = <<>>
    /\ candidate_idx = <<>>
    /\ keys_series = <<>>
    /\ blocks = <<>>
    /\ parent = <<>>
    /\ pairs = <<>>
    /\ blk = 0 /\ i = 0 /\ j = 0
    /\ root_to_group = <<>>
    /\ compared = {}
    /\ result = NoResult
    /\ earlier = <<>>

InitHelpers ==
    /\ Idle
    /\ pc = "helper"
    /\ \/ \E v \in CellValues : probe = <<[fn |-> "_normalize_value", v |-> v]>>
       \/ \E r \in KeyRows, c \in KeySelections :
             probe = <<[fn |-> "_build_key", row |-> r, cols |-> c]>>

\* lines 21-29: the truth value of pd.isna(v) is taken at line 23
NormalizeValue ==
    /\ pc = "helper"
    /\ probe[1].fn = "_normalize_value"
    /\ probe' = Append(probe,
                       IF IsArrayLike(probe[1].v)
                       THEN [status |-> "raised", value |-> <<>>, error |-> "ValueError"]
                       ELSE [status |-> "returned", value |-> _normalize_value(probe[1].v),
                             error |-> ""])
    /\ pc' = "helped"
    /\ UNCHANGED <<args, subset_cols, candidate_idx, keys_series, blocks, parent, pairs,
                   blk, i, j, root_to_group, compared, result, earlier>>

\* lines 32-37
BuildKey ==
    /\ pc = "helper"
    /\ probe[1].fn = "_build_key"
    /\ probe' = Append(probe, [status |-> "returned",
                               value |-> _build_key(probe[1].row, probe[1].cols),
                               error |-> ""])
    /\ pc' = "helped"
    /\ UNCHANGED <<args, subset_cols, candidate_idx, keys_series, blocks, parent, pairs,
                   blk, i, j, root_to_group, compared, result, earlier>>

NextHelpers == NormalizeValue \/ BuildKey

SpecHelpers == InitHelpers /\ [][NextHelpers]_vars

(***************************************************************************)
(* find and union called in any order on the parent map of a run.          *)
(***************************************************************************)
\* the runs looked at: one selected column, every row with or without a value in it
InitForest ==
    /\ Init
    /\ subset_arg = <<"name">>
    /\ \A r \in 1..Len(df) : df[r].city = <<>> \/ df[r].name = <<"A", "b", " ">>
    /\ threshold = 100
    /\ block_size = 3
    /\ min_non_null = 1
    /\ max_pairs_per_block = 3

\* lines 116-120: find(x) for a row x of the parent map
FindCall ==
    /\ pc = "compare"
    /\ \E x \in DOMAIN parent :
          /\ parent' = find(parent, x).parent
          /\ probe' = <<[fn |-> "find", x |-> x, y |-> x, value |-> find(parent, x).root]>>
    /\ UNCHANGED <<earlier, args, pc, subset_cols, candidate_idx, keys_series, blocks,
                   pairs, blk, i, j, root_to_group, compared, result>>

\* lines 122-125: union(x, y) for two rows of the parent map
UnionCall ==
    /\ pc = "compare"
    /\ \E x, y \in DOMAIN parent :
          /\ parent' = union(parent, x, y)
          /\ probe' = <<[fn |-> "union", x |-> x, y |-> y, value |-> 0]>>
    /\ UNCHANGED <<earlier, args, pc, subset_cols, candidate_idx, keys_series, blocks,
                   pairs, blk, i, j, root_to_group, compared, result>>

NextForest ==
    \/ SelectColumns
    \/ FilterRows
    \/ BuildKeys
    \/ BuildBlocks
    \/ InitUnionFind
    \/ FindCall
    \/ UnionCall

SpecForest == InitForest /\ [][NextForest]_vars

(***************************************************************************)
(* What the properties speak about.                                        *)
(***************************************************************************)
Returned == pc = "done" /\ result.status = "returned"

\* the rows of the returned pairs table
Table == result.pairs_df.rows

\* the two row ids of a row of the table
Ends(t) == {t.left_index, t.right_index}

\* the key of every row value under every selection a call can use, worked out once
KeyTable ==
    [v \in RowValues, c \in {<<>>, <<"name">>, DfColumns} |-> _build_key(v, c)] @@ <<>>

\* the normalized key of row r under the selected columns
KeyOf(r) == KeyTable[df[r], subset_cols]

\* the keys of KeyTable
TableKeys == { KeyTable[d] : d \in DOMAIN KeyTable }

\* the score of every two keys of KeyTable, worked out once
ScoreTable == [k \in TableKeys, l \in TableKeys |-> token_set_ratio(k, l)] @@ <<>>

\* the similarity score of the keys of two rows
ScoreOf(a, b) == ScoreTable[KeyOf(a), KeyOf(b)]

\* the first n characters of a key, the whole key when it is shorter
Prefix(key, n) == [k \in 1..(IF Len(key) < n THEN Len(key) ELSE n) |-> key[k]]

\* the rows reachable from the rows S along the pairs of the table
RECURSIVE Reach(_)
Reach(S) ==
    LET N == S \cup UNION { Ends(Table[k]) : k \in { l \in 1..Len(Table) :
                                                     Ends(Table[l]) \cap S # {} } }
    IN  IF N = S THEN S ELSE Reach(N)

\* the root of x in the parent map p, read without changing the map
RECURSIVE RootOf(_, _)
RootOf(p, x) == IF p[x] = x THEN x ELSE RootOf(p, p[x])

\* the block at position b holds more pairs than the cap
OverCap(b) ==
    Len(blocks[b].idx_list) * (Len(blocks[b].idx_list) - 1) > 2 * max_pairs_per_block

\* the pairs of rows of the block at position b, left before right
BlockPairs(b) ==
    LET idx_list == blocks[b].idx_list
    IN  { <<idx_list[mn[1]], idx_list[mn[2]]>> :
            mn \in { q \in (1..Len(idx_list)) \X (1..Len(idx_list)) : q[1] < q[2] } }

(***************************************************************************)
(* C1: in a returned result a row id is true in the mask if and only if it *)
(* is the left or the right id of at least one row of the pairs table.     *)
(***************************************************************************)
C1_MaskConsistency ==
    Returned =>
        \A r \in 1..Len(df) :
            result.mask[r] <=> \E k \in 1..Len(Table) : r \in Ends(Table[k])

\* a result with pairs in which some rows are in the mask and some are not
C1_Witness ==
    /\ Returned
    /\ Len(Table) >= 1
    /\ \E r \in 1..Len(df) : result.mask[r] /\ r \notin { Table[k].left_index : k \in 1..Len(Table) }
    /\ \E r \in 1..Len(df) : ~result.mask[r]

(***************************************************************************)
(* C2: in a returned result two rows of the pairs table carry the same     *)
(* group id if and only if a chain of accepted pairs connects them, and    *)
(* both ends of a pair resolve, through the union-find roots, to the group *)
(* id stamped on the pair.                                                 *)
(***************************************************************************)
C2_GroupsAreComponents ==
    Returned =>
        /\ \A k, l \in 1..Len(Table) :
              \A a \in Ends(Table[k]), b \in Ends(Table[l]) :
                  (Table[k].group_id = Table[l].group_id) <=> (b \in Reach({a}))
        /\ \A k \in 1..Len(Table) :
              \A a \in Ends(Table[k]) :
                  /\ RootOf(parent, a) \in DOMAIN root_to_group
                  /\ root_to_group[RootOf(parent, a)] = Table[k].group_id

\* pairs (a,b) and (b,c) accepted, score(a,c) below the threshold, one group id
C2_Witness ==
    /\ Returned
    /\ \E k, l \in 1..Len(Table) :
          \E a \in Ends(Table[k]), c \in Ends(Table[l]) :
              /\ a # c
              /\ Ends(Table[k]) \cap Ends(Table[l]) # {}
              /\ ScoreOf(a, c) < 100 * threshold
              /\ \A m \in 1..Len(Table) : Ends(Table[m]) # {a, c}
              /\ Table[k].group_id = Table[l].group_id

(***************************************************************************)
(* C3: for two distinct rows of one block that the cap does not skip, the  *)
(* pair is in the pairs table if and only if the similarity score of their *)
(* keys is at least the threshold, the row of the table carries that       *)
(* score, and no row of the table has a score below the threshold.         *)
(***************************************************************************)
C3_ThresholdDecides ==
    Returned =>
        /\ \A b \in 1..Len(blocks) :
              ~OverCap(b) =>
                  \A e \in BlockPairs(b) :
                      /\ (\E k \in 1..Len(Table) : Ends(Table[k]) = {e[1], e[2]})
                            <=> ScoreOf(e[1], e[2]) >= 100 * threshold
                      /\ \A k \in 1..Len(Table) :
                            Ends(Table[k]) = {e[1], e[2]} =>
                                Table[k].score = ScoreOf(e[1], e[2])
        /\ \A k \in 1..Len(Table) : Table[k].score >= 100 * threshold

\* in one compared block, a pair whose score equals the threshold is in the
\* table and a pair whose score is below it is not
C3_Witness ==
    /\ Returned
    /\ threshold \in 0..100
    /\ \E b \in 1..Len(blocks) :
          /\ ~OverCap(b)
          /\ \E e \in BlockPairs(b) :
                /\ ScoreOf(e[1], e[2]) = 100 * threshold
                /\ \E k \in 1..Len(Table) : Ends(Table[k]) = {e[1], e[2]}
          /\ \E e \in BlockPairs(b) :
                /\ ScoreOf(e[1], e[2]) < 100 * threshold
                /\ \A k \in 1..Len(Table) : Ends(Table[k]) # {e[1], e[2]}

(***************************************************************************)
(* C4: the keys of the two rows of every emitted pair share their first    *)
(* block_size characters, and no similarity score is ever computed for two *)
(* rows whose keys differ there.                                           *)
(***************************************************************************)
C4_PairsWithinBlock ==
    /\ \A e \in compared :
          Prefix(KeyOf(e[1]), block_size) = Prefix(KeyOf(e[2]), block_size)
    /\ Returned =>
          \A k \in 1..Len(Table) :
              Prefix(KeyOf(Table[k].left_index), block_size)
                  = Prefix(KeyOf(Table[k].right_index), block_size)

\* a result with pairs, and two rows in different blocks whose score reaches
\* a threshold of the valid range: they are not a pair
C4_Witness ==
    /\ Returned
    /\ Len(Table) >= 1
    /\ threshold \in 0..100
    /\ \E a, b \in Range(candidate_idx) :
          /\ Prefix(KeyOf(a), block_size) # Prefix(KeyOf(b), block_size)
          /\ ScoreOf(a, b) >= 100 * threshold
          /\ \A k \in 1..Len(Table) : Ends(Table[k]) # {a, b}

(***************************************************************************)
(* C5: the pairs table holds at most one row for an unordered pair of row  *)
(* ids, and no row of it has the same id on both sides.                    *)
(***************************************************************************)
C5_OneEntryPerPair ==
    /\ \A k, l \in 1..Len(pairs) :
          k # l => Ends(pairs[k]) # Ends(pairs[l])
    /\ \A k \in 1..Len(pairs) : pairs[k].left_index # pairs[k].right_index
    /\ Returned =>
          /\ \A k, l \in 1..Len(Table) : k # l => Ends(Table[k]) # Ends(Table[l])
          /\ \A k \in 1..Len(Table) : Table[k].left_index # Table[k].right_index

\* a table of three pairs over three rows
C5_Witness ==
    /\ Returned
    /\ Len(Table) >= 3
    /\ Cardinality(UNION { Ends(Table[k]) : k \in 1..Len(Table) }) = 3

(***************************************************************************)
(* C6: a block is skipped as a whole exactly when its k rows make more     *)
(* than max_pairs_per_block pairs, k*(k-1)/2: none of its pairs is ever    *)
(* compared, none of its rows is in a pair or in the mask, and the call    *)
(* returns; every other block is compared in full.                         *)
(***************************************************************************)
C6_CapSkipsWholeBlock ==
    /\ \A b \in 1..Len(blocks) :
          OverCap(b) => \A e \in compared : {e[1], e[2]} \cap Range(blocks[b].idx_list) = {}
    /\ pc = "done" /\ Len(blocks) > 0 =>
          /\ result.status = "returned"
          /\ \A b \in 1..Len(blocks) :
                IF OverCap(b)
                THEN /\ \A r \in Range(blocks[b].idx_list) : ~result.mask[r]
                     /\ \A k \in 1..Len(Table) :
                           Ends(Table[k]) \cap Range(blocks[b].idx_list) = {}
                ELSE BlockPairs(b) \subseteq compared

\* a skipped block that holds a pair whose score reaches the threshold
C6_Witness ==
    /\ Returned
    /\ threshold \in 0..100
    /\ \E b \in 1..Len(blocks) :
          /\ OverCap(b)
          /\ \E e \in BlockPairs(b) : ScoreOf(e[1], e[2]) >= 100 * threshold

(***************************************************************************)
(* C7: a call with a threshold outside 0..100 is rejected before any pair  *)
(* is compared: it compares nothing and returns no mask and pairs table.   *)
(***************************************************************************)
C7_InvalidThresholdRejected ==
    threshold \notin 0..100 => compared = {} /\ result.status # "returned"

(***************************************************************************)
(* C8: a selection that names a column absent from the rows fails with an  *)
(* error that names the missing column, before the union-find is created   *)
(* and before any pair is compared; nothing is returned.                   *)
(***************************************************************************)
\* the selected labels that are no column of the DataFrame
AbsentLabels == { subset_arg[k] : k \in 1..Len(subset_arg) } \ Range(DfColumns)

\* C8 as stated: the error is an InvalidParameter error
C8_InvalidParameterRaised ==
    pc = "done" /\ AbsentLabels # {} =>
        /\ result.status = "raised"
        /\ result.error.type = "InvalidParameter"
        /\ Range(result.error.labels) = AbsentLabels

\* C8 as the code has it: the error is the KeyError of df[subset_cols]
C8_KeyErrorBeforeUnionFind ==
    AbsentLabels # {} =>
        /\ Len(parent) = 0 /\ Len(pairs) = 0 /\ Len(blocks) = 0 /\ compared = {}
        /\ result.status # "returned"
        /\ pc = "done" =>
              /\ result.status = "raised"
              /\ result.error.type = "KeyError"
              /\ Range(result.error.labels) = AbsentLabels

\* the call has failed on rows that are duplicates under the column present
C8_Witness ==
    /\ pc = "done"
    /\ result.status = "raised"
    /\ AbsentLabels # {}
    /\ \E a, b \in 1..Len(df) : a # b /\ df[a].name = df[b].name /\ df[a].name # Null

(***************************************************************************)
(* C9: when there is no row, or the min_non_null filter and the empty-key  *)
(* filter leave no row, or no two candidate rows score at least the        *)
(* threshold, the call raises nothing and returns a mask that is false for *)
(* every row of df and a pairs table of zero rows.                         *)
(***************************************************************************)
\* row r fails the min_non_null filter
TooSparse(r) ==
    Cardinality({ k \in 1..Len(subset_cols) : df[r][subset_cols[k]] # Null }) < min_non_null

\* row r is removed by one of the two filters
FilteredOut(r) == TooSparse(r) \/ KeyOf(r) = <<>>

NoPairReaches ==
    \A a, b \in 1..Len(df) :
        a # b /\ ~FilteredOut(a) /\ ~FilteredOut(b) => ScoreOf(a, b) < 100 * threshold

C9_NothingFoundIsEmptyResult ==
    pc = "done" /\ AbsentLabels = {}
        /\ (Len(df) = 0 \/ (\A r \in 1..Len(df) : FilteredOut(r)) \/ NoPairReaches) =>
            /\ result.status = "returned"
            /\ result.mask = [r \in 1..Len(df) |-> FALSE]
            /\ Len(Table) = 0

\* every row is removed, one at least by the empty-key filter alone
C9_Witness ==
    /\ pc = "done"
    /\ AbsentLabels = {}
    /\ Len(df) >= 2
    /\ \A r \in 1..Len(df) : FilteredOut(r)
    /\ \E r \in 1..Len(df) : ~TooSparse(r)
    /\ result.status = "returned"

(***************************************************************************)
(* C10: every returned result has a mask of one boolean for each row of df *)
(* in row order and a pairs table with the six columns group_id,           *)
(* left_index, right_index, score, left_preview, right_preview, also when  *)
(* the table has no row.                                                   *)
(***************************************************************************)
C10_ResultShape ==
    Returned =>
        /\ DOMAIN result.mask = 1..Len(df)
        /\ \A r \in 1..Len(df) : result.mask[r] \in BOOLEAN
        /\ result.pairs_df.columns = <<"group_id", "left_index", "right_index", "score",
                                       "left_preview", "right_preview">>

(***************************************************************************)
(* C11: a row with fewer than min_non_null non-null cells in the selected  *)
(* columns, or with an empty key, is no candidate, whatever min_non_null   *)
(* is: it is in no block, it is never compared, it is at no end of a pair  *)
(* and its mask entry is false.                                            *)
(***************************************************************************)
C11_FilteredRowsStayOut ==
    AbsentLabels = {} =>
        \A r \in 1..Len(df) :
            FilteredOut(r) =>
                /\ \A b \in 1..Len(blocks) : r \notin Range(blocks[b].idx_list)
                /\ \A e \in compared : r \notin {e[1], e[2]}
                /\ \A k \in 1..Len(pairs) : r \notin Ends(pairs[k])
                /\ pc \in {"block", "init", "compare", "build"} =>
                      r \notin Range(candidate_idx)
                /\ Returned =>
                      /\ ~result.mask[r]
                      /\ \A k \in 1..Len(Table) : r \notin Ends(Table[k])

\* a row with a key but too few non-null cells stays out of a result in which
\* a row it matches is paired
C11_Witness ==
    /\ Returned
    /\ threshold \in 0..100
    /\ \E r \in 1..Len(df) :
          /\ TooSparse(r)
          /\ KeyOf(r) # <<>>
          /\ ~result.mask[r]
          /\ \E k \in 1..Len(Table) :
                \E s \in Ends(Table[k]) :
                    /\ ScoreOf(r, s) >= 100 * threshold
                    /\ Prefix(KeyOf(r), block_size) = Prefix(KeyOf(s), block_size)

(***************************************************************************)
(* C12: for the same rows, columns, block_size, min_non_null and cap, the  *)
(* pairs accepted at a threshold are among the pairs accepted at any lower *)
(* threshold, so raising the threshold never adds a pair.                  *)
(***************************************************************************)
\* the (left, right) ids of the rows of a pairs table
PairIds(frame) == { <<frame.rows[k].left_index, frame.rows[k].right_index>> :
                      k \in 1..Len(frame.rows) }

\* a second call has ended, both calls with a result
BothReturned == Returned /\ Len(earlier) = 1 /\ earlier[1].result.status = "returned"

C12_ThresholdMonotone ==
    BothReturned /\ earlier[1].threshold <= threshold =>
        /\ PairIds(result.pairs_df) \subseteq PairIds(earlier[1].result.pairs_df)
        /\ Len(Table) <= Len(earlier[1].result.pairs_df.rows)

\* two thresholds of the valid range: the higher one keeps some of the pairs
\* of the lower one and loses others
C12_Witness ==
    /\ BothReturned
    /\ earlier[1].threshold \in 0..100 /\ threshold \in 0..100
    /\ earlier[1].threshold < threshold
    /\ Len(Table) >= 1
    /\ Len(Table) < Len(earlier[1].result.pairs_df.rows)

(***************************************************************************)
(* C13: a second call on the same rows with the same parameters returns    *)
(* the same mask and the same pairs table, group ids and row order         *)
(* included, whatever the first call left behind.                          *)
(***************************************************************************)
C13_SameCallSameResult ==
    pc = "done" /\ Len(earlier) = 1 /\ earlier[1].threshold = threshold =>
        result = earlier[1].result

\* the repeated call returns a table of two groups
C13_Witness ==
    /\ BothReturned
    /\ earlier[1].threshold = threshold
    /\ \E k, l \in 1..Len(Table) : Table[k].group_id # Table[l].group_id

(***************************************************************************)
(* C14: once all pairs are processed the roots of the candidates get the   *)
(* group ids 1, 2, ... in the order in which the walk over the candidate   *)
(* ids in row order first meets them; so of two groups of the pairs table  *)
(* the one whose earliest row comes first has the smaller id, and every    *)
(* pair carries the id of its root.                                        *)
(***************************************************************************)
\* the roots of the candidates
Roots == { RootOf(parent, r) : r \in Range(candidate_idx) }

\* the position in candidate_idx of the first candidate whose root is x
FirstMet(x) ==
    CHOOSE n \in 1..Len(candidate_idx) :
        /\ RootOf(parent, candidate_idx[n]) = x
        /\ \A m \in 1..(n - 1) : RootOf(parent, candidate_idx[m]) # x

\* the smallest row id of the rows connected to the ends of a row of the table
EarliestRow(t) == CHOOSE r \in Reach(Ends(t)) : \A q \in Reach(Ends(t)) : r <= q

\* the groups have been assigned
Grouped == Len(pairs) > 0 /\ (pc = "build" \/ Returned)

C14_GroupIdsInOrderMet ==
    Grouped =>
        /\ DOMAIN root_to_group = Roots
        /\ { root_to_group[x] : x \in Roots } = 1..Cardinality(Roots)
        /\ \A x, y \in Roots :
              root_to_group[x] < root_to_group[y] <=> FirstMet(x) < FirstMet(y)
        /\ \A k \in 1..Len(pairs) :
              pairs[k].group_id = root_to_group[RootOf(parent, pairs[k].left_index)]
        /\ Returned =>
              \A k, l \in 1..Len(Table) :
                  Table[k].group_id < Table[l].group_id
                      <=> EarliestRow(Table[k]) < EarliestRow(Table[l])

\* a table of two groups
C14_Witness ==
    /\ Returned
    /\ \E k, l \in 1..Len(Table) :
          /\ Table[k].group_id < Table[l].group_id
          /\ EarliestRow(Table[k]) < EarliestRow(Table[l])

(***************************************************************************)
(* C15: the returned pairs table has exactly one row for each accepted     *)
(* pair, and its rows are in the order of ascending group id and, within a *)
(* group id, of descending score.                                          *)
(***************************************************************************)
C15_OneRowPerPairSorted ==
    Returned =>
        /\ Len(Table) = Len(pairs)
        /\ \A k \in 1..Len(pairs) :
              Cardinality({ l \in 1..Len(Table) :
                              /\ Table[l].left_index = pairs[k].left_index
                              /\ Table[l].right_index = pairs[k].right_index
                              /\ Table[l].score = pairs[k].score
                              /\ Table[l].group_id = pairs[k].group_id }) = 1
        /\ \A k, l \in 1..Len(Table) :
              k < l =>
                  \/ Table[k].group_id < Table[l].group_id
                  \/ Table[k].group_id = Table[l].group_id
                        /\ Table[k].score >= Table[l].score

\* a group of two pairs of different scores that were found in the other order
C15_Witness ==
    /\ Returned
    /\ Len(Table) >= 2
    /\ Table[1].group_id = Table[2].group_id
    /\ Table[1].score > Table[2].score
    /\ Ends(pairs[1]) = Ends(Table[2])

\* a call of the helper fn made on its own has returned or raised
Helped(fn) == pc = "helped" /\ probe[1].fn = fn

\* the normalized values of the selected fields of a row, in column order
Fields(row, cols) == [k \in 1..Len(cols) |-> _normalize_value(row[cols[k]])]

\* the sum of the lengths of the first m of the parts, each with a separator after it
RECURSIVE OffsetOf(_, _)
OffsetOf(parts, m) ==
    IF m = 0 THEN 0 ELSE OffsetOf(parts, m - 1) + Len(parts[m]) + Len(Separator)

(***************************************************************************)
(* C16: the key of a row is made of the non-empty normalized values of the *)
(* selected columns, in column order, with " | " between them; it is empty *)
(* exactly when every selected field normalizes to the empty string, and   *)
(* two rows that agree on the selected columns have the same key.          *)
(***************************************************************************)
C16_KeyIsJoinedFields ==
    Helped("_build_key") =>
        LET row  == probe[1].row
            cols == probe[1].cols
            key  == probe[2].value
            kept == SelectSeq(Fields(row, cols), LAMBDA f : Len(f) > 0)
            n    == Len(kept)
        IN  /\ probe[2].status = "returned"
            /\ Len(key) = IF n = 0 THEN 0 ELSE OffsetOf(kept, n) - Len(Separator)
            /\ \A m \in 1..n :
                  SubSeq(key, OffsetOf(kept, m - 1) + 1,
                              OffsetOf(kept, m - 1) + Len(kept[m])) = kept[m]
            /\ \A m \in 1..(n - 1) :
                  SubSeq(key, OffsetOf(kept, m) - Len(Separator) + 1, OffsetOf(kept, m))
                      = Separator
            /\ key = <<>> <=> \A k \in 1..Len(cols) : Fields(row, cols)[k] = <<>>
            /\ \A other \in KeyRows :
                  (\A k \in 1..Len(cols) : other[cols[k]] = row[cols[k]])
                      => _build_key(other, cols) = key

\* two columns taken in the order city, name: one field dropped, or both joined
C16_Witness ==
    /\ Helped("_build_key")
    /\ probe[1].cols = <<"city", "name">>
    /\ probe[1].row.city = <<"x">>
    /\ probe[1].row.name = <<"A", "b", " ">>
    /\ probe[2].value = <<"x", " ", "|", " ", "a", "b">>

(***************************************************************************)
(* C17: _normalize_value never fails; it gives the empty string for a null *)
(* value and otherwise a lowercased string with no space at either end and *)
(* no two adjacent spaces, which it maps to itself.                        *)
(***************************************************************************)
C17_NormalizeTotalCanonical ==
    Helped("_normalize_value") =>
        LET v   == probe[1].v
            out == probe[2].value
        IN  /\ probe[2].status = "returned"
            /\ v = Null => out = <<>>
            /\ \A k \in 1..Len(out) : out[k] = LowerChar(out[k])
            /\ \A k \in 1..(Len(out) - 1) : ~(out[k] = " " /\ out[k + 1] = " ")
            /\ Len(out) > 0 => out[1] # " " /\ out[Len(out)] # " "
            /\ _normalize_value(out) = out

\* the row reached from x after n steps along the parents of the map p
RECURSIVE Climb(_, _, _)
Climb(p, x, n) == IF n = 0 THEN x ELSE Climb(p, p[x], n - 1)

\* where the chain of x ends, if it ends within as many steps as the map has rows
Top(p, x) == Climb(p, x, Cardinality(DOMAIN p))

\* every parent is a row of the map and every chain ends at a row that is its own parent
IsForest(p) ==
    /\ \A x \in DOMAIN p : p[x] \in DOMAIN p
    /\ \A x \in DOMAIN p : p[Top(p, x)] = Top(p, x)

\* every row of the map p with the row its chain ends at
Tops(p) == LET n == Cardinality(DOMAIN p) IN { <<x, Climb(p, x, n)>> : x \in DOMAIN p }

\* the sets of rows that T puts under one root, T being the Tops of a map
Classes(T) == { { q[1] : q \in { r \in T : r[2] = t[2] } } : t \in T }

\* the set of Classes(T) that the row x is in
ClassOf(T, x) ==
    LET top == (CHOOSE t \in T : t[1] = x)[2]
    IN  { q[1] : q \in { r \in T : r[2] = top } }

(***************************************************************************)
(* C18: once the parent map is initialised it is a forest over exactly the *)
(* candidate rows, whatever find and union calls are made: every chain of  *)
(* parents ends at a root, a find returns the root of its row and leaves   *)
(* every row under the root it had, and a union of x and y replaces the    *)
(* classes of x and y by their union and leaves every other class as it    *)
(* was.                                                                    *)
(***************************************************************************)
C18_ParentMapIsForest ==
    /\ [](pc = "compare" => DOMAIN parent = Range(candidate_idx) /\ IsForest(parent))
    /\ [][pc = "compare" /\ probe' # probe =>
            \* the roots before and after the call, worked out once
            \A before \in {Tops(parent)}, after \in {Tops(parent')} :
                /\ DOMAIN parent' = DOMAIN parent
                /\ probe'[1].fn = "find" =>
                      /\ <<probe'[1].x, probe'[1].value>> \in before
                      /\ after = before
                /\ probe'[1].fn = "union" =>
                      \A of_x \in {ClassOf(before, probe'[1].x)},
                         of_y \in {ClassOf(before, probe'[1].y)} :
                          Classes(after) =
                              (Classes(before) \ {of_x, of_y}) \cup {of_x \cup of_y}]_vars

\* after a find of a row under a root: two trees, one with a row two steps under its root
C18_Witness ==
    /\ pc = "compare"
    /\ Len(probe) = 1
    /\ probe[1].fn = "find"
    /\ probe[1].x # probe[1].value
    /\ \E x, y \in DOMAIN parent :
          /\ parent[x] # x
          /\ parent[parent[x]] # parent[x]
          /\ Top(parent, y) # Top(parent, x)

\* the blocks dict is built and the call has not failed
BlocksBuilt == pc \in {"init", "compare", "build", "done"} /\ result.status # "raised"

\* the places (block, position) at which row r stands in the blocks
PlacesOf(r) ==
    { q \in (1..Len(blocks)) \X (1..MaxRows) :
        q[2] <= Len(blocks[q[1]].idx_list) /\ blocks[q[1]].idx_list[q[2]] = r }

(***************************************************************************)
(* C19: the blocks partition the candidate rows. A row that passes both    *)
(* filters stands at exactly one place, in the block whose key is the      *)
(* first block_size characters of its key (the whole key when it is        *)
(* shorter); a filtered row stands nowhere; the blocks have different keys *)
(* and list their rows in the order of df, so the left row of every pair   *)
(* compared or emitted comes before its right row.                         *)
(***************************************************************************)
C19_BlocksPartitionCandidates ==
    BlocksBuilt =>
        /\ \A r \in 1..Len(df) :
              \A places \in {PlacesOf(r)} :
                  IF FilteredOut(r)
                  THEN places = {}
                  ELSE /\ Cardinality(places) = 1
                       /\ \A q \in places :
                             blocks[q[1]].key = Prefix(KeyOf(r), block_size)
        /\ \A b, c \in 1..Len(blocks) : blocks[b].key = blocks[c].key => b = c
        /\ \A b \in 1..Len(blocks) :
              /\ Len(blocks[b].idx_list) >= 1
              /\ \A m, n \in 1..Len(blocks[b].idx_list) :
                    m < n => blocks[b].idx_list[m] < blocks[b].idx_list[n]
        /\ \A e \in compared : e[1] < e[2]
        /\ \A k \in 1..Len(pairs) : pairs[k].left_index < pairs[k].right_index

\* a pair from a block of several rows beside a block whose key is a whole key of
\* fewer than block_size characters, and a row that is in no block
C19_Witness ==
    /\ BlocksBuilt
    /\ Len(pairs) >= 1
    /\ \E r \in 1..Len(df) : FilteredOut(r)
    /\ \E b \in 1..Len(blocks) : Len(blocks[b].key) < block_size
    /\ \E b \in 1..Len(blocks) : Len(blocks[b].idx_list) >= 2

=============================================================================
